---- MODULE Spec2Model ----
(***************************************************************************)
(* A model of the amane-lang front end: the Lexer (src/parser/lexer.ts)    *)
(* and the Parser (src/parser/parser.ts).                                  *)
(*                                                                         *)
(* A source text is a sequence of characters, each a one-character string. *)
(* Offsets are 0-based as in the code: the character at offset i of src is *)
(* src[i + 1].                                                             *)
(***************************************************************************)
EXTENDS Integers, Sequences, FiniteSets, TLC

VARIABLES
    source,     \* Lexer.source
    index,      \* Lexer.#index
    tokens,     \* the tokens the caller has collected from next() so far
    done,       \* the last next() reported done
    error,      \* the message of the error the last next() threw, "" if none
    lastIndex,  \* lastIndex of the static Lexer.#identRe and Lexer.operatorRe
    other,      \* a second Lexer instance, with what its caller collected
    shape,      \* how the parser's input was put together (tuple inputs)
    input,      \* the token array handed to the parser
    tree        \* the parser's result: a node, Failure, or NotParsed

vars == <<source, index, tokens, done, error, lastIndex, other, shape, input, tree>>

lexerVars == <<source, index, tokens, done, error, lastIndex, other>>

parserVars == <<shape, input, tree>>

-----------------------------------------------------------------------------
(* Bounds of the model.                                                    *)

MaxLen == 4

MaxRest == 2

MaxElements == 3

MaxTrailing == 2

MaxParams == 2

MaxStmts == 2

MaxUnits == 4

MaxCommentLen == 8

MaxTwoLen == 3

-----------------------------------------------------------------------------
(* Character classes.                                                      *)

LowerAlpha ==
    {"a", "b", "c", "d", "e", "f", "g", "h", "i", "j", "k", "l", "m",
     "n", "o", "p", "q", "r", "s", "t", "u", "v", "w", "x", "y", "z"}

UpperAlpha ==
    {"A", "B", "C", "D", "E", "F", "G", "H", "I", "J", "K", "L", "M",
     "N", "O", "P", "Q", "R", "S", "T", "U", "V", "W", "X", "Y", "Z"}

Alpha == LowerAlpha \cup UpperAlpha

Digit == {"0", "1", "2", "3", "4", "5", "6", "7", "8", "9"}

HexDigit == Digit \cup {"a", "b", "c", "d", "e", "f", "A", "B", "C", "D", "E", "F"}

\* The characters JavaScript's `.` does not match (no `s` flag): LF, CR
\* (U+2028 and U+2029 too; they are not part of the modelled alphabets).
LineTerminator == {"\n", "\r"}

\* /\p{White_Space}/u, the part of it the modelled alphabets draw from.
WhiteSpace == {" ", "\t", "\n", "\r", "\f"}

\* isDelimiter
Delimiters == {"(", ")", "[", "]", "{", "}", ";", ","}

\* operatorChars
operatorChars ==
    {"!", "#", "$", "%", "&", "*", "+", "-", ".", "/", ":", "<", "=", ">",
     "?", "@", "^", "|", "~"}

\* Lexer.operatorRe: the characters are joined into one character class,
\* "[!#$%&*+-./:<=>?@^|~]*", with only "\" and "]" escaped, so "+-." inside
\* the class is the range U+002B..U+002E, which holds "," as well.
operatorRe == operatorChars \cup {","}

\* identStartRe as it would be with the underscore in the class
identStartReWithUnderscore == Alpha \cup {"\\", "_"}

\* Lexer.#identStartRe = /[A-Za-z\\]/
identStartRe == Alpha \cup {"\\"}

\* [\dA-Za-z_] of Lexer.#identRe
IdentPart == Digit \cup Alpha \cup {"_"}

\* keywords
keywords ==
    { <<"t", "r", "u", "e">>, <<"f", "a", "l", "s", "e">>, <<"i", "f">>,
      <<"t", "h", "e", "n">>, <<"e", "l", "s", "e">>, <<"l", "o", "o", "p">>,
      <<"b", "r", "e", "a", "k">>, <<"l", "e", "t">>, <<"d", "o">>,
      <<"f", "n">>, <<"r", "e", "t", "u", "r", "n">> }

-----------------------------------------------------------------------------
(* The Lexer's scanning rules: each takes the source and the cursor and    *)
(* gives the cursor after the rule.                                        *)

\* this.source.startsWith(string, this.#index) for a two-character string
isAhead(src, i, c1, c2) ==
    i + 2 <= Len(src) /\ src[i + 1] = c1 /\ src[i + 2] = c2

\* A sticky /[class]*/ read: the end of the maximal run of class characters.
RECURSIVE readRun(_, _, _)
readRun(src, i, class) ==
    IF i < Len(src) /\ src[i + 1] \in class
    THEN readRun(src, i + 1, class)
    ELSE i

\* readRe(/\p{White_Space}*/uy)
readWhitespace(src, i) == readRun(src, i, WhiteSpace)

\* readRe(Lexer.operatorRe)
readOperator(src, i) == readRun(src, i, operatorRe)

\* readRe(/.*/y): up to the next line terminator or the end of input.
RECURSIVE readLine(_, _)
readLine(src, i) ==
    IF i < Len(src) /\ src[i + 1] \notin LineTerminator
    THEN readLine(src, i + 1)
    ELSE i

\* The starred group of Lexer.#identRe, ([\dA-Za-z_]|\\.)*
RECURSIVE identReGroup(_, _)
identReGroup(src, i) ==
    IF i < Len(src) /\ src[i + 1] \in IdentPart
    THEN identReGroup(src, i + 1)
    ELSE IF i + 2 <= Len(src) /\ src[i + 1] = "\\"
              /\ src[i + 2] \notin LineTerminator
         THEN identReGroup(src, i + 2)
         ELSE i

\* identRe as it would be without the trailing \\?
identReNoTrailing(src, i) == identReGroup(src, i)

\* Lexer.#identRe = /([\dA-Za-z_]|\\.)*\\?/uy
identRe(src, i) ==
    LET j == identReGroup(src, i)
    IN  IF j < Len(src) /\ src[j + 1] = "\\" THEN j + 1 ELSE j

\* The regular expression of readString, /([^"\\]|\\.)*/uy
RECURSIVE stringRe(_, _)
stringRe(src, i) ==
    IF i < Len(src) /\ src[i + 1] \notin {"\"", "\\"}
    THEN stringRe(src, i + 1)
    ELSE IF i + 2 <= Len(src) /\ src[i + 1] = "\\"
              /\ src[i + 2] \notin LineTerminator
         THEN stringRe(src, i + 2)
         ELSE i

\* Lexer.#readString: the content, then one more character if there is one.
readString(src, i) ==
    LET j == stringRe(src, i)
    IN  IF j >= Len(src) THEN j ELSE j + 1

\* Lexer.#readNumber: /0[bo][\d_]*|0x[\da-f_]*|[\d_]+(\.[\d_]*)?/iy
readNumber(src, i) ==
    IF isAhead(src, i, "0", "b") \/ isAhead(src, i, "0", "o")
       \/ isAhead(src, i, "0", "B") \/ isAhead(src, i, "0", "O")
    THEN readRun(src, i + 2, Digit \cup {"_"})
    ELSE IF isAhead(src, i, "0", "x") \/ isAhead(src, i, "0", "X")
    THEN readRun(src, i + 2, HexDigit \cup {"_"})
    ELSE LET j == readRun(src, i, Digit \cup {"_"})
         IN  IF j < Len(src) /\ src[j + 1] = "."
             THEN readRun(src, j + 1, Digit \cup {"_"})
             ELSE j

\* One exec of the global /\/\*|\*\/|$/ from offset i: the leftmost "/*" or
\* "*/" at or after i, or the empty match at the end of input.
RECURSIVE commentRe(_, _)
commentRe(src, i) ==
    IF isAhead(src, i, "/", "*") THEN [value |-> "/*", lastIndex |-> i + 2]
    ELSE IF isAhead(src, i, "*", "/") THEN [value |-> "*/", lastIndex |-> i + 2]
    ELSE IF i >= Len(src) THEN [value |-> "", lastIndex |-> Len(src)]
    ELSE commentRe(src, i + 1)

\* readMultiLineComment as it would be with no depth counter
readUnnestedComment(src, i, depth) == commentRe(src, i).lastIndex

\* Lexer.#readMultiLineComment, entered with depth = 1
RECURSIVE readMultiLineComment(_, _, _)
readMultiLineComment(src, i, depth) ==
    LET m == commentRe(src, i)
        d == IF m.value = "/*" THEN depth + 1 ELSE depth - 1
    IN  IF m.value = "" THEN m.lastIndex
        ELSE IF d > 0 THEN readMultiLineComment(src, m.lastIndex, d)
        ELSE m.lastIndex

\* identReLastIndex as it would be if #readRe left lastIndex as it found it
identReLastIndexKept(i) == lastIndex.identRe

\* #readRe(Lexer.#identRe): re.lastIndex = this.#index, where exec then starts
identReLastIndex(i) == i

\* Lexer.#readIdent: the token type and the cursor after it.  A sticky exec
\* from beyond the end of the source does not match, and #readRe throws.
readIdent(src, i) ==
    IF isAhead(src, i, "\\", "\"")
    THEN [type |-> "Ident", index |-> readString(src, i + 2), error |-> ""]
    ELSE IF identReLastIndex(i) > Len(src)
    THEN [type |-> "", index |-> i, error |-> "Could not match."]
    ELSE LET j == identRe(src, identReLastIndex(i))
             value == SubSeq(src, i + 1, j)
         IN  [type  |-> IF value \in keywords THEN "Keyword" ELSE "Ident",
              index |-> j, error |-> ""]

\* unknownCharacter as it would be if the lexer skipped the character
skipUnknownCharacter(i) == [type |-> "Unknown", index |-> i + 1, error |-> ""]

\* throw new Error("Unknown character."): the cursor stays where it is, and
\* the error is the message alone.
unknownCharacter(i) == [type |-> "", index |-> i, error |-> "Unknown character."]

\* Lexer.#readToken, called with a character at the cursor.
readToken(src, i) ==
    LET char == src[i + 1]
    IN  IF char \in WhiteSpace
        THEN [type |-> "Whitespace", index |-> readWhitespace(src, i + 1), error |-> ""]
        ELSE IF char \in Delimiters
        THEN [type |-> "Delimiter", index |-> i + 1, error |-> ""]
        ELSE IF isAhead(src, i, "/", "/")
        THEN [type |-> "Comment", index |-> readLine(src, i), error |-> ""]
        ELSE IF char = "\""
        THEN [type |-> "String", index |-> readString(src, i + 1), error |-> ""]
        ELSE IF isAhead(src, i, "/", "*")
        THEN [type |-> "Comment", index |-> readMultiLineComment(src, i + 2, 1), error |-> ""]
        ELSE IF char \in operatorChars
        THEN [type |-> "Operator", index |-> readOperator(src, i + 1), error |-> ""]
        ELSE IF char \in Digit
        THEN [type |-> "Number", index |-> readNumber(src, i), error |-> ""]
        ELSE IF char \in identStartRe
        THEN readIdent(src, i)
        ELSE unknownCharacter(i)

\* new Token(type, value, { start, end })
Token(type, src, start, end) ==
    [type  |-> type,
     value |-> SubSeq(src, start + 1, end),
     loc   |-> [start |-> start, end |-> end]]

\* atEnd as it would be with the test off by one
atEndOffByOne(src, start) == start + 1 >= Len(src)

\* The end-of-input test of Lexer.next
atEnd(src, start) == start >= Len(src)

-----------------------------------------------------------------------------
(* Lexer.next(): one call, with the caller pushing the token it returns.   *)

\* The static regular expressions after a token was read: #readRe leaves in
\* lastIndex the end of the match.  Lexer.#identRe reads the Ident and
\* Keyword tokens that are no string idents, Lexer.operatorRe the Operator
\* tokens; every other regular expression is a literal of its method.
afterToken(li, t) ==
    IF t.type = "Operator" THEN [li EXCEPT !.operatorRe = t.loc.end]
    ELSE IF /\ t.type \in {"Ident", "Keyword"}
            /\ ~(Len(t.value) >= 2 /\ t.value[1] = "\\" /\ t.value[2] = "\"")
    THEN [li EXCEPT !.identRe = t.loc.end]
    ELSE li

\* next() on the Lexer lx = [source, index, tokens, done, error]: the Lexer
\* after the call
next(lx) ==
    IF atEnd(lx.source, lx.index)
    THEN [lx EXCEPT !.done = TRUE, !.error = ""]
    ELSE LET r == readToken(lx.source, lx.index)
         IN  IF r.error # ""
             THEN [lx EXCEPT !.done = FALSE, !.error = r.error]
             ELSE IF r.index = lx.index
             THEN [lx EXCEPT !.done = FALSE, !.error = "An empty token is invalid."]
             ELSE [lx EXCEPT
                      !.index = r.index,
                      !.tokens = Append(lx.tokens,
                                        Token(r.type, lx.source, lx.index, r.index)),
                      !.done = FALSE,
                      !.error = ""]

\* What next() leaves in the static regular expressions
nextLastIndex(lx, li) ==
    IF Len(next(lx).tokens) > Len(lx.tokens)
    THEN afterToken(li, next(lx).tokens[Len(next(lx).tokens)])
    ELSE li

\* The first Lexer instance, as a record
lexer ==
    [source |-> source, index |-> index, tokens |-> tokens, done |-> done,
     error |-> error]

LexerNext ==
    /\ index' = next(lexer).index
    /\ tokens' = next(lexer).tokens
    /\ done' = next(lexer).done
    /\ error' = next(lexer).error
    /\ lastIndex' = nextLastIndex(lexer, lastIndex)
    /\ UNCHANGED <<source, other, shape, input, tree>>

\* next() on the second Lexer instance
OtherNext ==
    /\ other' = next(other)
    /\ lastIndex' = nextLastIndex(other, lastIndex)
    /\ UNCHANGED <<source, index, tokens, done, error, shape, input, tree>>

-----------------------------------------------------------------------------------------------------------------------------------------------------
(* Parser results.  A parser is run on the token array from a state        *)
(* [success, value, index, errors]: the value of what was parsed last, the *)
(* position, and the errors the parse context has collected so far.  A     *)
(* failed token match adds what it expected, with the position, to the     *)
(* context's errors.                                                       *)

Null == [type |-> "null"]

ok(value, i, errs) ==
    [success |-> TRUE, value |-> value, index |-> i, errors |-> errs]

fail(errs) ==
    [success |-> FALSE, value |-> Null, index |-> 0, errors |-> errs]

\* error.expected(type), error.expected(`${type}("${value}")`)
expected(i, type, value) == [index |-> i, type |-> type, value |-> value]

\* loc as it would be if it took both ends from the first node
locOfStart(start, end) == [start |-> start.loc.start, end |-> start.loc.end]

\* loc(start, end)
loc(start, end) == [start |-> start.loc.start, end |-> end.loc.end]

-----
(* Value normalization.                                                    *)

\* \w of a JavaScript regular expression
WordChar == Digit \cup Alpha \cup {"_"}

\* value.replace(/_/g, "")
removeUnderscores(value) == SelectSeq(value, LAMBDA c : c # "_")

\* The number of characters 0+\B matches from 1-based position p of s, 0 if
\* it cannot match: the run of zeros is taken whole when a word character
\* follows it, and gives its last zero back otherwise.
zerosBeforeNonBoundary(s, p) ==
    LET z == readRun(s, p - 1, {"0"}) - (p - 1)
    IN  IF z = 0 THEN 0
        ELSE IF p + z <= Len(s) /\ s[p + z] \in WordChar THEN z
        ELSE z - 1

\* s.replace(/^(0[box])?0+\B/, "$1"): the group is tried first, and given up
\* when no 0+\B follows it.
collapseLeadingZeros(s) ==
    LET hasPrefix == Len(s) >= 2 /\ s[1] = "0" /\ s[2] \in {"b", "o", "x"}
        k2 == IF hasPrefix THEN zerosBeforeNonBoundary(s, 3) ELSE 0
        k0 == zerosBeforeNonBoundary(s, 1)
    IN  IF k2 > 0 THEN SubSeq(s, 1, 2) \o SubSeq(s, 3 + k2, Len(s))
        ELSE IF k0 > 0 THEN SubSeq(s, 1 + k0, Len(s))
        ELSE s

\* The value of a Number node
normalizeNumber(value) == collapseLeadingZeros(removeUnderscores(value))

\* escapeChar as it would be with no table
escapeCharUnmapped(c) == c

\* escapeCharMap.get(mat) ?? mat; the control characters are named.
escapeChar(c) ==
    CASE c = "0" -> "NUL"
      [] c = "n" -> "\n"
      [] c = "r" -> "\r"
      [] c = "t" -> "\t"
      [] c = "v" -> "VT"
      [] OTHER -> c

\* unescapeStringContent: string.replace(/\\(.)/g, ...)
RECURSIVE unescapeStringContent(_)
unescapeStringContent(s) ==
    IF s = <<>> THEN <<>>
    ELSE IF s[1] = "\\" /\ Len(s) >= 2 /\ s[2] \notin LineTerminator
    THEN <<escapeChar(s[2])>> \o unescapeStringContent(SubSeq(s, 3, Len(s)))
    ELSE <<s[1]>> \o unescapeStringContent(Tail(s))

\* unescapeIdent as it would be if it only deleted the backslashes
removeBackslashes(s) == SelectSeq(s, LAMBDA c : c # "\\")

\* value.replace(/\\(.?)/g, "$1")
RECURSIVE unescapeIdent(_)
unescapeIdent(s) ==
    IF s = <<>> THEN <<>>
    ELSE IF s[1] = "\\" /\ Len(s) >= 2 /\ s[2] \notin LineTerminator
    THEN <<s[2]>> \o unescapeIdent(SubSeq(s, 3, Len(s)))
    ELSE IF s[1] = "\\" THEN unescapeIdent(Tail(s))
    ELSE <<s[1]>> \o unescapeIdent(Tail(s))

\* value.slice(from, -1)
sliceToLast(value, from) == SubSeq(value, from + 1, Len(value) - 1)

\* The name of an Ident node
identName(value) ==
    LET isStringIdent ==
            /\ Len(value) >= 2 /\ value[1] = "\\" /\ value[2] = "\""
            /\ value[Len(value)] = "\""
    IN  IF isStringIdent
        THEN unescapeStringContent(sliceToLast(value, 2))
        ELSE unescapeIdent(value)

\* The value of a String node
stringValue(value) == unescapeStringContent(sliceToLast(value, 1))

-----------------------------------------------------------------------------------------------------------------------------------------------------
(* The grammar, written as in parser.ts: every rule is a term built from   *)
(* the combinators, and run(p, toks, st) further down runs a term.         *)

\* token(type)
token(type) == [op |-> "token", type |-> type]

\* tokenWith(type, value)
tokenWith(type, value) == [op |-> "tokenWith", type |-> type, value |-> value]

keyword(word) == tokenWith("Keyword", word)

delimiter(d) == tokenWith("Delimiter", <<d>>)

operator(op) == tokenWith("Operator", op)

\* P.choice(parsers)
choice(parsers) == [op |-> "choice", items |-> parsers]

\* P.seq(parsers)
seq(parsers) == [op |-> "seq", items |-> parsers]

\* parser.apply(P.many)
many(parser) == [op |-> "many", item |-> parser]

\* parser.option(null)
option(parser) == [op |-> "option", item |-> parser]

\* parser.apply(P.sepBy, separator, { trailing: "allow" })
sepByAllowTrailing(parser, separator) ==
    [op |-> "sepBy", item |-> parser, sep |-> separator, trailing |-> "allow"]

\* first.then(second): both in turn, the value of the second
then(first, second) == [op |-> "then", first |-> first, second |-> second]

\* first.skip(second): both in turn, the value of the first
skip(first, second) == [op |-> "skip", first |-> first, second |-> second]

\* parser.map(f), f named by the rule it belongs to
map(parser, f) == [op |-> "map", item |-> parser, f |-> f]

\* P.lazy(() => rule)
lazy(name) == [op |-> "lazy", name |-> name]

KwTrue == <<"t", "r", "u", "e">>

KwFalse == <<"f", "a", "l", "s", "e">>

KwInf == <<"i", "n", "f">>

KwNan == <<"n", "a", "n">>

KwIf == <<"i", "f">>

KwThen == <<"t", "h", "e", "n">>

KwElse == <<"e", "l", "s", "e">>

KwLoop == <<"l", "o", "o", "p">>

KwBreak == <<"b", "r", "e", "a", "k">>

KwFn == <<"f", "n">>

KwReturn == <<"r", "e", "t", "u", "r", "n">>

KwLet == <<"l", "e", "t">>

Expression == lazy("Expression")

Statement == lazy("Statement")

Bool == map(choice(<<keyword(KwTrue), keyword(KwFalse)>>), "Bool")

Number == map(choice(<<keyword(KwInf), keyword(KwNan), token("Number")>>), "Number")

String == map(token("String"), "String")

\* Tuple as it would be with no trailing separator allowed
TupleNoTrailing ==
    map(seq(<<delimiter("("),
              [op |-> "sepBy", item |-> Expression, sep |-> delimiter(","),
               trailing |-> "none"],
              delimiter(")")>>),
        "Tuple")

Tuple ==
    map(seq(<<delimiter("("),
              sepByAllowTrailing(Expression, delimiter(",")),
              delimiter(")")>>),
        "Tuple")

Ident == map(token("Ident"), "Ident")

\* Block as it would be if only Let statements were repeated
BlockOfLets ==
    map(seq(<<delimiter("{"),
              many(map(seq(<<keyword(KwLet), Ident, operator(<<"=">>), Expression>>), "Let")),
              option(Expression),
              delimiter("}")>>),
        "Block")

Block ==
    map(seq(<<delimiter("{"), many(Statement), option(Expression), delimiter("}")>>),
        "Block")

\* If as it would be with an optional `else` keyword
IfOptionalElse ==
    map(seq(<<keyword(KwIf),
              Expression,
              then(keyword(KwThen), Expression),
              then(option(keyword(KwElse)), Expression)>>),
        "If")

If ==
    map(seq(<<keyword(KwIf),
              Expression,
              then(keyword(KwThen), Expression),
              then(keyword(KwElse), Expression)>>),
        "If")

Loop == map(seq(<<keyword(KwLoop), Expression>>), "Loop")

Break == map(keyword(KwBreak), "Break")

Fn ==
    map(seq(<<keyword(KwFn), option(skip(Tuple, operator(<<"=", ">">>))), Expression>>),
        "Fn")

Return == map(seq(<<keyword(KwReturn), option(Expression)>>), "Return")

Let ==
    map(seq(<<keyword(KwLet), Ident, operator(<<"=">>), Expression>>), "Let")

ExpressionStatement == map(Expression, "Expression")

\* What the P.lazy rules stand for
lazyRule(name) ==
    CASE name = "Expression" ->
            choice(<<Bool, Number, String, Tuple, Ident, Block, If, Loop, Break,
                     Fn, Return>>)
      [] name = "Statement" -> choice(<<Let, ExpressionStatement>>)

\* The functions given to map: the node a rule builds from what it parsed.
node(f, v) ==
    CASE f = "Bool" ->
            [type |-> "Bool", value |-> (v.value = KwTrue), loc |-> v.loc]
      [] f = "Number" ->
            [type |-> "Number", value |-> normalizeNumber(v.value), loc |-> v.loc]
      [] f = "String" ->
            [type |-> "String", value |-> stringValue(v.value), loc |-> v.loc]
      [] f = "Tuple" ->
            [type |-> "Tuple", elements |-> v[2], loc |-> loc(v[1], v[3])]
      [] f = "Ident" ->
            [type |-> "Ident", name |-> identName(v.value), loc |-> v.loc]
      [] f = "Block" ->
            [type |-> "Block", stmts |-> v[2], last |-> v[3], loc |-> loc(v[1], v[4])]
      [] f = "If" ->
            [type |-> "If", cond |-> v[2], then |-> v[3], else |-> v[4],
             loc |-> loc(v[1], v[4])]
      [] f = "Loop" ->
            [type |-> "Loop", body |-> v[2], loc |-> loc(v[1], v[2])]
      [] f = "Break" ->
            [type |-> "Break", loc |-> v.loc]
      [] f = "Fn" ->
            [type |-> "Fn", params |-> v[2], body |-> v[3], loc |-> loc(v[1], v[3])]
      [] f = "Return" ->
            [type |-> "Return", body |-> v[2],
             loc |-> loc(v[1], IF v[2] = Null THEN v[1] ELSE v[2])]
      [] f = "Let" ->
            [type |-> "Let", dest |-> v[2], init |-> v[4], loc |-> loc(v[1], v[4])]
      [] f = "Expression" ->
            [type |-> "Expression", expr |-> v, loc |-> v.loc]

-----------------------------------------------------------------------------
(* Running a parser term.                                                  *)

\* P.satisfy: one token that matches, or an error at this position.
satisfy(p, toks, st) ==
    IF /\ st.index < Len(toks)
       /\ toks[st.index + 1].type = p.type
       /\ (p.op = "tokenWith" => toks[st.index + 1].value = p.value)
    THEN ok(toks[st.index + 1], st.index + 1, st.errors)
    ELSE fail(st.errors \cup
              {expected(st.index, p.type, IF p.op = "tokenWith" THEN p.value ELSE <<>>)})

\* The state a failed parser leaves for the next alternative: the position
\* of st, the errors collected meanwhile.
retry(st, failed) == ok(st.value, st.index, failed.errors)

RECURSIVE run(_, _, _)

\* P.seq from its k-th parser on, acc the values so far
RECURSIVE runSeq(_, _, _, _, _)
runSeq(items, k, toks, st, acc) ==
    IF k > Len(items) THEN ok(acc, st.index, st.errors)
    ELSE LET r == run(items[k], toks, st)
         IN  IF r.success THEN runSeq(items, k + 1, toks, r, Append(acc, r.value))
             ELSE r

\* P.choice from its k-th parser on: the first that succeeds
RECURSIVE runChoice(_, _, _, _)
runChoice(items, k, toks, st) ==
    IF k > Len(items) THEN fail(st.errors)
    ELSE LET r == run(items[k], toks, st)
         IN  IF r.success THEN r ELSE runChoice(items, k + 1, toks, retry(st, r))

\* P.many: as many as succeed
RECURSIVE runMany(_, _, _, _)
runMany(item, toks, st, acc) ==
    LET r == run(item, toks, st)
    IN  IF r.success THEN runMany(item, toks, r, Append(acc, r.value))
        ELSE ok(acc, st.index, r.errors)

\* P.sepBy after an element: a separator and an element, again and again; with
\* trailing "allow" a separator that no element follows stays consumed.
RECURSIVE runSepByRest(_, _, _, _)
runSepByRest(p, toks, st, acc) ==
    LET s == run(p.sep, toks, st)
        e == run(p.item, toks, s)
    IN  IF ~s.success THEN ok(acc, st.index, s.errors)
        ELSE IF e.success THEN runSepByRest(p, toks, e, Append(acc, e.value))
        ELSE IF p.trailing = "allow" THEN ok(acc, s.index, e.errors)
        ELSE ok(acc, st.index, e.errors)

\* P.sepBy: no element, or elements with separators between them
runSepBy(p, toks, st) ==
    LET e == run(p.item, toks, st)
    IN  IF e.success THEN runSepByRest(p, toks, e, <<e.value>>)
        ELSE ok(<<>>, st.index, e.errors)

\* first.then(second) and first.skip(second)
runBoth(p, toks, st) ==
    LET a == run(p.first, toks, st)
        b == run(p.second, toks, a)
    IN  IF ~a.success THEN a
        ELSE IF ~b.success THEN b
        ELSE IF p.op = "then" THEN b
        ELSE ok(a.value, b.index, b.errors)

\* parser.option(null)
runOption(p, toks, st) ==
    LET r == run(p.item, toks, st)
    IN  IF r.success THEN r ELSE ok(Null, st.index, r.errors)

\* parser.map(f)
runMap(p, toks, st) ==
    LET r == run(p.item, toks, st)
    IN  IF r.success THEN ok(node(p.f, r.value), r.index, r.errors) ELSE r

run(p, toks, st) ==
    CASE p.op \in {"token", "tokenWith"} -> satisfy(p, toks, st)
      [] p.op = "seq" -> runSeq(p.items, 1, toks, st, <<>>)
      [] p.op = "choice" -> runChoice(p.items, 1, toks, st)
      [] p.op = "many" -> runMany(p.item, toks, st, <<>>)
      [] p.op = "sepBy" -> runSepBy(p, toks, st)
      [] p.op \in {"then", "skip"} -> runBoth(p, toks, st)
      [] p.op = "option" -> runOption(p, toks, st)
      [] p.op = "map" -> runMap(p, toks, st)
      [] p.op = "lazy" -> run(lazyRule(p.name), toks, st)

-----
(* The callers: lex (collect every token) and parse (lex, drop the         *)
(* Whitespace tokens, run a parser to the end of the input).               *)

\* lex(source): the Lexer driven from offset i until it reports done or throws.
RECURSIVE lex(_, _, _)
lex(src, i, acc) ==
    IF atEnd(src, i) THEN [tokens |-> acc, index |-> i, error |-> ""]
    ELSE LET r == readToken(src, i)
         IN  IF r.error # "" THEN [tokens |-> acc, index |-> i, error |-> r.error]
             ELSE IF r.index = i
             THEN [tokens |-> acc, index |-> i, error |-> "An empty token is invalid."]
             ELSE lex(src, r.index, Append(acc, Token(r.type, src, i, r.index)))

\* tokens.filter((token) => token.type !== "Whitespace")
notWhitespace(ts) == SelectSeq(ts, LAMBDA t : t.type # "Whitespace")

\* parseA(parser, tokens): the parser run from the first token, which must
\* end at the end of the token array.
parseA(parser, toks) ==
    LET r == run(parser, toks, ok(Null, 0, {}))
    IN  IF r.success /\ r.index < Len(toks)
        THEN fail(r.errors \cup {expected(r.index, "EOI", <<>>)})
        ELSE r

NotParsed ==
    [parser |-> "", success |-> FALSE, value |-> Null, index |-> 0, errors |-> {}]

parsed(name, r) ==
    [parser |-> name, success |-> r.success, value |-> r.value,
     index |-> r.index, errors |-> r.errors]

-----------------------------------------------------------------------------
(* Inputs.                                                                 *)

\* Every string over an alphabet of at most n characters
Strings(alphabet, n) == UNION { [1..k -> alphabet] : k \in 0..n }

\* Characters of every lexical class: blank, line terminator, delimiter,
\* operator characters (comment openers), quote, backslash, letter, digit,
\* and the underscore.
LayoutAlphabet == {" ", "\n", "(", "/", "*", "\"", "\\", "a", "0", "_"}

\* Characters of number literals
NumberAlphabet == {"0", "1", "_", ".", "x", "X", "b"}

\* Characters of identifiers, keywords and string idents
IdentAlphabet == {"i", "f", "n", "a", "\\", "\"", "_", "\n"}

NoShape == [kind |-> "source", parts |-> <<>>, lead |-> FALSE, trailing |-> 0]

\* The static regular expressions when the class is defined
NeverRead == [identRe |-> 0, operatorRe |-> 0]

\* new Lexer(src), before its first next()
NewLexer(src) ==
    [source |-> src, index |-> 0, tokens |-> <<>>, done |-> FALSE, error |-> ""]

\* new Lexer(source), nothing parsed yet
Fresh(alphabet) ==
    /\ source \in Strings(alphabet, MaxLen)
    /\ index = 0
    /\ tokens = <<>>
    /\ done = FALSE
    /\ error = ""
    /\ lastIndex = NeverRead
    /\ other = NewLexer(<<>>)
    /\ shape = NoShape
    /\ input = <<>>
    /\ tree = NotParsed

\* The words of a source text, one blank between two words
RECURSIVE join(_)
join(words) ==
    IF words = <<>> THEN <<>>
    ELSE IF Len(words) = 1 THEN words[1]
    ELSE words[1] \o <<" ">> \o join(Tail(words))

\* The static regular expressions after the tokens ts were read
RECURSIVE lastIndexAfter(_, _)
lastIndexAfter(ts, li) ==
    IF ts = <<>> THEN li ELSE lastIndexAfter(Tail(ts), afterToken(li, ts[1]))

\* The state in which the caller has driven new Lexer(join(words)) to done
Lexed(words, sh) ==
    LET r == lex(join(words), 0, <<>>)
    IN  /\ r.error = ""
        /\ source = join(words)
        /\ index = r.index
        /\ tokens = r.tokens
        /\ done = TRUE
        /\ error = ""
        /\ lastIndex = lastIndexAfter(r.tokens, NeverRead)
        /\ other = NewLexer(<<>>)
        /\ shape = sh
        /\ input = <<>>
        /\ tree = NotParsed

\* Expressions that stand as the condition and the then branch of an If,
\* each a list of words
Branches ==
    { <<<<"a">>>>, <<KwReturn>>, <<<<"(">>, <<")">>>>, <<<<"{">>, <<"}">>>>,
      <<KwFn, <<"a">>>>,
      <<KwIf, <<"a">>, KwThen, <<"a">>, KwElse, <<"a">>>> }

\* Words that may follow the then branch
RestWords == {KwElse, KwThen, KwReturn, <<"a">>, <<"{">>, <<")">>}

\* Expressions that stand as tuple elements, each a list of words
Elements ==
    { <<<<"0">>>>, <<<<"a">>>>, <<KwReturn>>, <<KwReturn, <<"a">>>>,
      <<<<"(">>, <<"a">>, <<",">>, <<")">>>>, <<KwFn, <<"a">>>> }

RECURSIVE concat(_)
concat(lists) == IF lists = <<>> THEN <<>> ELSE lists[1] \o concat(Tail(lists))

\* "(", a comma if lead, the parts with a comma between two of them, trailing
\* commas, ")"
tupleWords(sh) ==
    <<<<"(">>>>
    \o (IF sh.lead THEN <<<<",">>>> ELSE <<>>)
    \o concat([k \in 1..Len(sh.parts) |->
                  IF k = 1 THEN sh.parts[k] ELSE <<<<",">>>> \o sh.parts[k]])
    \o [k \in 1..sh.trailing |-> <<",">>]
    \o <<<<")">>>>

\* Expressions that stand between the parentheses after `fn`, each one word
ParamWords == {<<"a">>, <<"b">>, <<"0">>, KwTrue}

\* Expressions that stand as the body of a function, each a list of words
Bodies ==
    { <<<<"a">>>>, <<<<"{">>, <<"}">>>>,
      <<KwFn, <<"(">>, <<"0">>, <<")">>, <<"=", ">">>, <<"a">>>> }

\* "fn", then "(" params ")" if parens and "=>" if arrow, then the body
fnWords(params, parens, arrow, body) ==
    <<KwFn>>
    \o (IF parens
        THEN <<<<"(">>>>
             \o concat([k \in 1..Len(params) |->
                           IF k = 1 THEN <<params[k]>> ELSE <<<<",">>, params[k]>>])
             \o <<<<")">>>>
        ELSE <<>>)
    \o (IF arrow THEN <<<<"=", ">">>>> ELSE <<>>)
    \o body

\* What stands between the braces of a block, each a list of words:
\* statements and expressions of every rule, and one that does not parse.
BlockItems ==
    { <<<<"a">>>>, <<KwTrue>>, <<<<"0">>>>, <<<<"\"", "a", "\"">>>>,
      <<KwLet, <<"a">>, <<"=">>, <<"0">>>>,
      <<KwReturn>>, <<KwLoop, <<"a">>>>, <<KwBreak>>,
      <<<<"(">>, <<"a">>, <<",">>, <<")">>>>,
      <<KwIf, <<"a">>, KwThen, <<"a">>, KwElse, <<"a">>>>,
      <<KwFn, <<"(">>, <<"a">>, <<")">>, <<"=", ">">>, <<"a">>>>,
      <<<<"{">>, <<"a">>, <<"}">>>>,
      <<KwLet, <<"a">>>> }

\* "{", the items, "}"
blockWords(items) == <<<<"{">>>> \o concat(items) \o <<<<"}">>>>

\* What string literals are made of: the quote, plain characters, a line
\* terminator, the backslash, and the escapes of escapeCharMap
StringUnits ==
    { <<"\"">>, <<"a">>, <<"\n">>, <<"\\">>, <<"\\", "n">>, <<"\\", "0">>,
      <<"\\", "r">>, <<"\\", "t">>, <<"\\", "v">> }

\* new Lexer(src) and new Lexer(src2), nothing parsed yet
FreshPair(src, src2) ==
    /\ source = src
    /\ index = 0
    /\ tokens = <<>>
    /\ done = FALSE
    /\ error = ""
    /\ lastIndex = NeverRead
    /\ other = NewLexer(src2)
    /\ shape = NoShape
    /\ input = <<>>
    /\ tree = NotParsed

\* new Lexer(src), nothing parsed yet
FreshOn(src) == FreshPair(src, <<>>)

\* Characters of block comments: the two of the opener and the closer, and
\* a letter
CommentAlphabet == {"/", "*", "a"}

\* Characters of binary and octal literals, and digits outside those bases
BaseAlphabet == {"0", "1", "2", "9", "b", "B", "o"}

\* Characters of the tokens the static regular expressions read: a letter
\* and an operator character, and a blank
TwoAlphabet == {"a", "=", " "}

\* Characters of operators and comment openers, with a delimiter, a letter
\* and a line terminator
OperatorAlphabet == {"=", "/", "*", ",", "a", "\n"}

Init == Fresh(LayoutAlphabet)

InitNumber == Fresh(NumberAlphabet)

InitIdent == Fresh(IdentAlphabet)

InitIf ==
    \E cond \in Branches, then_ \in Branches, rest \in Strings(RestWords, MaxRest) :
        Lexed(<<KwIf>> \o cond \o <<KwThen>> \o then_ \o rest,
              [kind |-> "if", parts |-> <<cond, then_, rest>>, lead |-> FALSE,
               trailing |-> 0])

InitTuple ==
    \E parts \in Strings(Elements, MaxElements), lead \in BOOLEAN,
       trailing \in 0..MaxTrailing :
        LET sh == [kind |-> "tuple", parts |-> parts, lead |-> lead,
                   trailing |-> trailing]
        IN  Lexed(tupleWords(sh), sh)

InitFn ==
    \E params \in Strings(ParamWords, MaxParams), parens \in BOOLEAN,
       arrow \in BOOLEAN, body \in Bodies :
        Lexed(fnWords(params, parens, arrow, body),
              [kind |-> "fn", parts |-> <<params, body>>, lead |-> parens,
               trailing |-> IF arrow THEN 1 ELSE 0])

InitString == \E units \in Strings(StringUnits, MaxUnits) : FreshOn(concat(units))

InitComment == \E src \in Strings(CommentAlphabet, MaxCommentLen) : FreshOn(src)

InitBase == Fresh(BaseAlphabet)

\* Two Lexer instances, each over a source of its own
InitTwo == \E src, src2 \in Strings(TwoAlphabet, MaxTwoLen) : FreshPair(src, src2)

InitOperator == Fresh(OperatorAlphabet)

InitBlock ==
    \E items \in Strings(BlockItems, MaxStmts) :
        Lexed(blockWords(items),
              [kind |-> "block", parts |-> items, lead |-> FALSE, trailing |-> 0])

-----------------------------------------------------------------------------
(* parse(parser, source), once the Lexer has reported done.                *)

ParseExpression ==
    /\ done
    /\ tree = NotParsed
    /\ input' = notWhitespace(tokens)
    /\ tree' = parsed("Expression", parseA(Expression, input'))
    /\ UNCHANGED <<source, index, tokens, done, error, lastIndex, other, shape>>

ParseStatement ==
    /\ done
    /\ tree = NotParsed
    /\ input' = notWhitespace(tokens)
    /\ tree' = parsed("Statement", parseA(Statement, input'))
    /\ UNCHANGED <<source, index, tokens, done, error, lastIndex, other, shape>>

Next == LexerNext \/ ParseExpression \/ ParseStatement

Spec == Init /\ [][Next]_vars

SpecNumber == InitNumber /\ [][Next]_vars

SpecIdent == InitIdent /\ [][Next]_vars

SpecIf == InitIf /\ [][Next]_vars

SpecTuple == InitTuple /\ [][Next]_vars

SpecFn == InitFn /\ [][Next]_vars

SpecBlock == InitBlock /\ [][Next]_vars

SpecString == InitString /\ [][Next]_vars

SpecComment == InitComment /\ [][Next]_vars

SpecBase == InitBase /\ [][Next]_vars

SpecOperator == InitOperator /\ [][Next]_vars

\* Any interleaving of the next() calls of two Lexer instances
NextTwo == LexerNext \/ OtherNext

SpecTwo == InitTwo /\ [][NextTwo]_vars

-----------------------------------------------------------------------------
(* Properties.                                                             *)

RECURSIVE concatValues(_)
concatValues(ts) ==
    IF ts = <<>> THEN <<>> ELSE ts[1].value \o concatValues(Tail(ts))

\* The first n characters of s, all of s if it is shorter
Take(s, n) == SubSeq(s, 1, IF Len(s) < n THEN Len(s) ELSE n)

\* C1: the tokens emitted so far partition a prefix of the source: the first
\* starts at offset 0, each starts where the one before it ended, each value
\* is the slice of its span, the values concatenated are the source up to the
\* cursor, and once next() has reported done they are the whole source.
C1_TokensPartitionSource ==
    /\ index <= Len(source)
    /\ \A k \in 1..Len(tokens) :
          /\ tokens[k].loc.start = (IF k = 1 THEN 0 ELSE tokens[k - 1].loc.end)
          /\ tokens[k].loc.end <= Len(source)
          /\ tokens[k].value =
                SubSeq(source, tokens[k].loc.start + 1, tokens[k].loc.end)
    /\ concatValues(tokens) = SubSeq(source, 1, index)
    /\ done =>
          /\ concatValues(tokens) = source
          /\ IF tokens = <<>> THEN source = <<>>
             ELSE tokens[Len(tokens)].loc.end = Len(source)

C1_Witness ==
    /\ done
    /\ Len(tokens) >= 3
    /\ \E i, j \in 1..Len(tokens) :
          tokens[i].type = "Whitespace" /\ tokens[j].type = "Comment"

\* C2: every token next() returns is at least one character long, and the
\* error "An empty token is invalid." is never raised.
C2_NoEmptyToken ==
    /\ error # "An empty token is invalid."
    /\ \A k \in 1..Len(tokens) : tokens[k].loc.end > tokens[k].loc.start

C2_Witness ==
    \E k \in 1..Len(tokens) :
        tokens[k].type = "Ident" /\ tokens[k].value = <<"\\">>

\* The source was one Number token, and Expression made a Number node of it.
NumberNodeOfToken ==
    /\ tree.parser = "Expression"
    /\ tree.success
    /\ tree.value.type = "Number"
    /\ Len(input) = 1
    /\ input[1].type = "Number"

HasBasePrefix(v) ==
    Len(v) >= 2 /\ v[1] = "0" /\ v[2] \in {"x", "X", "b", "B", "o", "O"}

\* C3: the value of a Number node made of a token that starts with 0x, 0b or
\* 0o, in either letter case, starts with the same two characters.
C3_BasePrefixKept ==
    (NumberNodeOfToken /\ HasBasePrefix(input[1].value))
        => Take(tree.value.value, 2) = Take(input[1].value, 2)

\* C4: normalizing the value of a Number node again gives the same value.
C4_NormalizationIdempotent ==
    NumberNodeOfToken => normalizeNumber(tree.value.value) = tree.value.value

\* The thirteen reserved words of the specification
ReservedWords ==
    { KwTrue, KwFalse, KwInf, KwNan, KwIf, KwThen, KwElse, KwLoop, KwBreak,
      KwLet, <<"d", "o">>, KwFn, KwReturn }

\* C5: a token of the identifier rule is a Keyword exactly when its text is
\* one of the thirteen reserved words, and the sources "inf" and "nan" parse
\* to Number nodes.
C5_ReservedWordsAreKeywords ==
    /\ \A k \in 1..Len(tokens) :
          tokens[k].type \in {"Ident", "Keyword"}
              => (tokens[k].type = "Keyword" <=> tokens[k].value \in ReservedWords)
    /\ (tree.parser = "Expression" /\ source \in {KwInf, KwNan})
          => (tree.success /\ tree.value.type = "Number")

Backslashed(v) == \E j \in 1..Len(v) : v[j] = "\\"

\* The text of a string ident: it starts with \"
IsStringIdentText(v) == Len(v) >= 2 /\ v[1] = "\\" /\ v[2] = "\""

\* s with every pair of a backslash and a character replaced by the
\* character, and a backslash that no character follows replaced by lone
RECURSIVE replacePairs(_, _)
replacePairs(s, lone) ==
    IF s = <<>> THEN <<>>
    ELSE IF s[1] # "\\" THEN <<s[1]>> \o replacePairs(Tail(s), lone)
    ELSE IF Len(s) = 1 THEN lone
    ELSE <<s[2]>> \o replacePairs(SubSeq(s, 3, Len(s)), lone)

\* The source was one token, and Expression made an Ident node of it.
IdentNodeOfToken ==
    /\ tree.parser = "Expression"
    /\ tree.success
    /\ tree.value.type = "Ident"
    /\ Len(input) = 1

\* A token of the identifier rule with a backslash in it is an Ident, and no
\* token with a backslash in it is a Keyword.
EscapedTokensAreIdents ==
    \A k \in 1..Len(tokens) :
        Backslashed(tokens[k].value)
            => /\ tokens[k].type # "Keyword"
               /\ tokens[k].value[1] \in Alpha \cup {"\\"} => tokens[k].type = "Ident"

\* C6 as stated: escaped tokens are Idents, and the name of a plain escaped
\* identifier is its text with every backslash-character pair replaced by the
\* character (a backslash outside a pair stays).
C6_NameReplacesPairs ==
    /\ EscapedTokensAreIdents
    /\ (IdentNodeOfToken /\ ~IsStringIdentText(input[1].value))
          => tree.value.name = replacePairs(input[1].value, <<"\\">>)

\* C6 as amended: escaped tokens are Idents, and the name of a plain escaped
\* identifier is its text with every backslash-character pair replaced by the
\* character and a trailing backslash that no character follows removed.
C6_NameDropsBackslashes ==
    /\ EscapedTokensAreIdents
    /\ (IdentNodeOfToken /\ ~IsStringIdentText(input[1].value))
          => tree.value.name = replacePairs(input[1].value, <<>>)

C6_Witness ==
    /\ IdentNodeOfToken
    /\ input[1].value = <<"\\", "i", "f">>
    /\ tree.value.name = KwIf

UnderscoreAtCursor == index < Len(source) /\ source[index + 1] = "_"

\* C7 as stated: with an underscore at the cursor, next() returns one Ident
\* token that covers the underscore and the identifier characters after it,
\* and raises no error.
C7_UnderscoreStartsIdent ==
    [][UnderscoreAtCursor =>
          /\ error' = ""
          /\ index' = readRun(source, index, IdentPart)
          /\ tokens' = Append(tokens, Token("Ident", source, index, index'))]_vars

\* C7 as amended: with an underscore at the cursor, next() raises "Unknown
\* character.", returns no token and leaves the cursor where it is; no token
\* starts with an underscore.
C7_UnderscoreIsUnknown ==
    [][/\ UnderscoreAtCursor =>
             /\ error' = "Unknown character."
             /\ index' = index
             /\ tokens' = tokens
       /\ \A k \in 1..Len(tokens') : tokens'[k].value[1] # "_"]_vars

C7_Witness ==
    /\ UnderscoreAtCursor
    /\ error = "Unknown character."
    /\ \E k \in 1..Len(tokens) :
          tokens[k].type = "Ident" /\ tokens[k].value[Len(tokens[k].value)] = "_"

\* The parse of `if` Expression `then` Expression from the first token, as far
\* as it gets: the Expression after `if`, the Expression after `then`.
ifCond == run(Expression, input, ok(Null, 1, {}))

ifThen == run(Expression, input, ok(Null, ifCond.index + 1, {}))

\* The input starts with `if` Expression `then` Expression, and the token
\* after that is not the keyword else (or there is none).
IfWithoutElse ==
    /\ Len(input) >= 1
    /\ input[1].type = "Keyword" /\ input[1].value = KwIf
    /\ ifCond.success
    /\ ifCond.index < Len(input)
    /\ input[ifCond.index + 1].type = "Keyword"
    /\ input[ifCond.index + 1].value = KwThen
    /\ ifThen.success
    /\ ifThen.index < Len(input) =>
          ~(/\ input[ifThen.index + 1].type = "Keyword"
            /\ input[ifThen.index + 1].value = KwElse)

RECURSIVE wordCount(_, _)
wordCount(parts, k) == IF k = 0 THEN 0 ELSE Len(parts[k]) + wordCount(parts, k - 1)

\* The tokens of the k-th part of a tuple input, parsed on their own
partAlone(k) ==
    LET first == 1 + (IF shape.lead THEN 1 ELSE 0)
                   + wordCount(shape.parts, k - 1) + (k - 1) + 1
    IN  parseA(Expression, SubSeq(input, first, first + Len(shape.parts[k]) - 1))

\* C9: `(` e1 `,` ... `,` en `)`, with or (for n >= 1) without one trailing
\* comma, parses to the Tuple of e1..en in order; a comma with no expression
\* before it, or a second trailing comma, makes the parse fail.
C9_TupleElements ==
    (tree.parser = "Expression" /\ shape.kind = "tuple")
        => IF ~shape.lead /\ shape.trailing <= (IF shape.parts = <<>> THEN 0 ELSE 1)
           THEN /\ tree.success
                /\ tree.value.type = "Tuple"
                /\ Len(tree.value.elements) = Len(shape.parts)
                /\ \A k \in 1..Len(shape.parts) :
                      /\ partAlone(k).success
                      /\ tree.value.elements[k] = partAlone(k).value
                /\ tree.value.loc = [start |-> 0, end |-> Len(source)]
           ELSE ~tree.success

C9_Witness ==
    /\ tree.parser = "Expression"
    /\ tree.success
    /\ shape.kind = "tuple"
    /\ Len(shape.parts) = 2
    /\ shape.trailing = 1
    /\ tree.value.elements[1].type = "Return"

\* No quote closes the string content that starts at offset p: every
\* backslash takes the character after it along.
RECURSIVE NoClosingQuote(_, _)
NoClosingQuote(src, p) ==
    IF p >= Len(src) THEN TRUE
    ELSE IF src[p + 1] = "\"" THEN FALSE
    ELSE IF src[p + 1] = "\\" THEN NoClosingQuote(src, p + 2)
    ELSE NoClosingQuote(src, p + 1)

\* The nesting depth of the block comment content from offset p on never
\* returns to 0.
RECURSIVE NeverCloses(_, _, _)
NeverCloses(src, p, depth) ==
    IF p >= Len(src) THEN TRUE
    ELSE IF isAhead(src, p, "/", "*") THEN NeverCloses(src, p + 2, depth + 1)
    ELSE IF isAhead(src, p, "*", "/")
    THEN depth > 1 /\ NeverCloses(src, p + 2, depth - 1)
    ELSE NeverCloses(src, p + 1, depth)

\* C10: a String token whose quote is never closed, and a block comment whose
\* depth never returns to 0, end at the end of the source, and no error is
\* raised for them.
C10_UnterminatedRunToEnd ==
    \A k \in 1..Len(tokens) :
        (\/ /\ tokens[k].type = "String"
            /\ NoClosingQuote(source, tokens[k].loc.start + 1)
         \/ /\ tokens[k].type = "Comment"
            /\ isAhead(source, tokens[k].loc.start, "/", "*")
            /\ NeverCloses(source, tokens[k].loc.start + 2, 1))
            => tokens[k].loc.end = Len(source)

\* The character is accepted by no rule of the lexer: it is no white space,
\* delimiter, quote, operator character, digit, letter or backslash.
NoRuleAccepts(c) ==
    c \notin WhiteSpace \cup Delimiters \cup {"\""} \cup operatorChars
             \cup Digit \cup Alpha \cup {"\\"}

UnknownAtCursor == index < Len(source) /\ NoRuleAccepts(source[index + 1])

children(n) ==
    CASE n.type = "Tuple" -> n.elements
      [] n.type = "Block" -> n.stmts \o <<n.last>>
      [] n.type = "If" -> <<n.cond, n.then, n.else>>
      [] n.type = "Loop" -> <<n.body>>
      [] n.type = "Fn" -> <<n.params, n.body>>
      [] n.type = "Return" -> <<n.body>>
      [] n.type = "Let" -> <<n.dest, n.init>>
      [] n.type = "Expression" -> <<n.expr>>
      [] OTHER -> <<>>

\* Every node of the trees under the nodes of a list, the nodes of the list
\* included, parents before children
RECURSIVE nodesOf(_)
nodesOf(list) ==
    IF list = <<>> THEN <<>>
    ELSE IF list[1] = Null THEN nodesOf(Tail(list))
    ELSE <<list[1]>> \o nodesOf(children(list[1])) \o nodesOf(Tail(list))

\* Every node of the parsed tree
treeNodes == nodesOf(<<tree.value>>)

\* C12: in every Fn node of a parsed tree, params is null or a Tuple whose
\* elements are all Ident nodes.
C12_FnParamsAreIdents ==
    tree.success =>
        \A i \in 1..Len(treeNodes) :
            LET n == treeNodes[i]
            IN  n.type = "Fn" =>
                    \/ n.params = Null
                    \/ /\ n.params.type = "Tuple"
                       /\ \A k \in 1..Len(n.params.elements) :
                             n.params.elements[k].type = "Ident"

\* The rule that makes a node of this type
ruleOf(n) == IF n.type \in {"Let", "Expression"} THEN Statement ELSE Expression

\* The rule of n, run on the input from its a-th token
reparsed(n, a) == run(ruleOf(n), input, ok(Null, a - 1, {}))

\* The node is what its rule makes of the tokens a..b of the input, and its
\* span runs from the start of token a to the end of token b.
SpansTokens(n, a, b) ==
    /\ a <= b
    /\ n.loc = [start |-> input[a].loc.start, end |-> input[b].loc.end]
    /\ reparsed(n, a).success
    /\ reparsed(n, a).index = b
    /\ reparsed(n, a).value.type = n.type
    /\ reparsed(n, a).value = n

\* C13: in a successfully parsed tree every node spans the tokens its rule
\* consumed, from the start of the first to the end of the last (the root:
\* the whole input); so loc.start < loc.end, a child's span lies inside its
\* parent's, an ExpressionStatement has the span of its expression, and a
\* valueless Return has the span of the `return` keyword.
C13_NodeSpansItsTokens ==
    tree.success =>
        /\ SpansTokens(tree.value, 1, Len(input))
        /\ \A i \in 1..Len(treeNodes) :
              LET n == treeNodes[i]
              IN  /\ \E a, b \in 1..Len(input) : SpansTokens(n, a, b)
                  /\ n.loc.start < n.loc.end
                  /\ \A k \in 1..Len(children(n)) :
                        LET c == children(n)[k]
                        IN  c # Null => /\ n.loc.start <= c.loc.start
                                        /\ c.loc.end <= n.loc.end
                  /\ n.type = "Expression" => n.loc = n.expr.loc
                  /\ (n.type = "Return" /\ n.body = Null) =>
                        \E a \in 1..Len(input) :
                            /\ input[a].type = "Keyword"
                            /\ input[a].value = KwReturn
                            /\ n.loc = input[a].loc

C13_Witness ==
    /\ tree.success
    /\ tree.parser = "Statement"
    /\ Len(tree.value.expr.stmts) = 2
    /\ tree.value.expr.stmts[1].type = "Let"
    /\ tree.value.expr.stmts[2].expr.type = "Return"
    /\ tree.value.expr.stmts[2].expr.body = Null

\* The source was one String token, and Expression made a String node of it.
StringNodeOfToken ==
    /\ tree.parser = "Expression"
    /\ tree.success
    /\ tree.value.type = "String"
    /\ Len(input) = 1
    /\ input[1].type = "String"

\* The position, from p on, of the first quote of v that is not the second
\* half of a backslash-character pair; 0 if there is none
RECURSIVE closingQuote(_, _)
closingQuote(v, p) ==
    IF p > Len(v) THEN 0
    ELSE IF v[p] = "\"" THEN p
    ELSE IF v[p] = "\\" THEN closingQuote(v, p + 2)
    ELSE closingQuote(v, p + 1)

\* Opening quote, content, closing quote
TerminatedString(v) == Len(v) >= 2 /\ v[1] = "\"" /\ closingQuote(v, 2) = Len(v)

\* What the backslash-character pair \c stands for
escapeOf(c) ==
    CASE c = "0" -> "NUL"
      [] c = "n" -> "\n"
      [] c = "r" -> "\r"
      [] c = "t" -> "\t"
      [] c = "v" -> "VT"
      [] OTHER -> c

\* The content with each backslash-character pair replaced
RECURSIVE unescaped(_)
unescaped(content) ==
    IF content = <<>> THEN <<>>
    ELSE IF content[1] = "\\" /\ Len(content) >= 2
    THEN <<escapeOf(content[2])>> \o unescaped(SubSeq(content, 3, Len(content)))
    ELSE <<content[1]>> \o unescaped(Tail(content))

\* C14: the value of the String node of a terminated String token is the
\* content between the quotes with \0, \n, \r, \t, \v replaced by NUL, LF, CR,
\* TAB, VT, any other \X by X, and the other characters unchanged.
C14_StringValueIsUnescapedContent ==
    (StringNodeOfToken /\ TerminatedString(input[1].value))
        => tree.value.value =
              unescaped(SubSeq(input[1].value, 2, Len(input[1].value) - 1))

C14_Witness ==
    /\ StringNodeOfToken
    /\ input[1].value = <<"\"", "\\", "n", "a", "\"">>
    /\ tree.value.value = <<"\n", "a">>

\* The offset just after the closer that brings the depth back to 0, for a
\* leftmost, non-overlapping scan of src from offset p at the given depth;
\* the end of the source if there is no such closer.
RECURSIVE commentEnd(_, _, _)
commentEnd(src, p, depth) ==
    IF p >= Len(src) THEN Len(src)
    ELSE IF src[p + 1] = "/" /\ p + 2 <= Len(src) /\ src[p + 2] = "*"
    THEN commentEnd(src, p + 2, depth + 1)
    ELSE IF src[p + 1] = "*" /\ p + 2 <= Len(src) /\ src[p + 2] = "/"
    THEN IF depth = 1 THEN p + 2 ELSE commentEnd(src, p + 2, depth - 1)
    ELSE commentEnd(src, p + 1, depth)

IsBlockComment(t) ==
    t.type = "Comment" /\ Len(t.value) >= 2 /\ t.value[1] = "/" /\ t.value[2] = "*"

\* C15: a block comment token ends just after the first closer at which the
\* depth returns to 0, the depth being 1 after the opener and the scan
\* starting after the opener's two characters (at the end of the source if
\* the depth never returns to 0); the next token starts right there.
C15_BlockCommentEndsAtDepthZero ==
    \A k \in 1..Len(tokens) :
        IsBlockComment(tokens[k]) =>
            /\ tokens[k].loc.end = commentEnd(source, tokens[k].loc.start + 2, 1)
            /\ k < Len(tokens) => tokens[k + 1].loc.start = tokens[k].loc.end

C15_Witness ==
    /\ done
    /\ Len(tokens) = 1
    /\ tokens[1].type = "Comment"
    /\ tokens[1].value = <<"/", "*", "/", "*", "*", "/", "*", "/">>

\* The token text starts with "0" and one of the two letters
HasPrefix(v, lower, upper) == Len(v) >= 2 /\ v[1] = "0" /\ v[2] \in {lower, upper}

\* C16: after the prefix 0b or 0B a Number token holds only 0, 1 and _, and
\* after 0o or 0O only 0..7 and _.
C16_DigitsOfTheBase ==
    \A k \in 1..Len(tokens) :
        tokens[k].type = "Number" =>
            /\ HasPrefix(tokens[k].value, "b", "B") =>
                  \A j \in 3..Len(tokens[k].value) :
                      tokens[k].value[j] \in {"0", "1", "_"}
            /\ HasPrefix(tokens[k].value, "o", "O") =>
                  \A j \in 3..Len(tokens[k].value) :
                      tokens[k].value[j] \in {"0", "1", "2", "3", "4", "5", "6", "7", "_"}

\* Where the string content that starts at offset p ends: just after the
\* first quote that is not the second half of a backslash-character pair,
\* whatever the character, or at the end of the source.
RECURSIVE stringEnd(_, _)
stringEnd(src, p) ==
    IF p >= Len(src) THEN Len(src)
    ELSE IF src[p + 1] = "\"" THEN p + 1
    ELSE IF src[p + 1] = "\\" THEN stringEnd(src, p + 2)
    ELSE stringEnd(src, p + 1)

\* C17: a String token ends just after the first quote that is not the
\* second half of a backslash-character pair, or at the end of the source: a
\* backslash and the character after it, whatever it is, never end the token.
C17_StringEndsAtUnescapedQuote ==
    \A k \in 1..Len(tokens) :
        tokens[k].type = "String" =>
            tokens[k].loc.end = stringEnd(source, tokens[k].loc.start + 1)

\* C19: the value of the String node of a String token, terminated or not,
\* is the unescaping of all the content after the opening quote: the text
\* without the opening quote and, if the string is terminated, without the
\* closing quote.
C19_NoContentCharacterDropped ==
    StringNodeOfToken =>
        tree.value.value =
            unescaped(SubSeq(input[1].value, 2,
                             IF TerminatedString(input[1].value)
                             THEN Len(input[1].value) - 1
                             ELSE Len(input[1].value)))

\* C18: in every Block node of a parsed tree, last is null: every expression
\* before the closing brace is an ExpressionStatement of stmts.
C18_BlockLastIsNull ==
    tree.success =>
        \A i \in 1..Len(treeNodes) :
            treeNodes[i].type = "Block" =>
                /\ treeNodes[i].last = Null
                /\ \A k \in 1..Len(treeNodes[i].stmts) :
                      treeNodes[i].stmts[k].type \in {"Let", "Expression"}

C18_Witness ==
    /\ tree.success
    /\ tree.parser = "Expression"
    /\ tree.value.type = "Block"
    /\ Len(tree.value.stmts) = 2
    /\ tree.value.stmts[1].type = "Let"
    /\ tree.value.stmts[2].type = "Expression"
    /\ tree.value.stmts[2].expr.type = "Block"
    /\ tree.value.stmts[2].expr.stmts[1].expr.type = "Ident"
    /\ tree.value.last = Null

\* What the Lexer lx has returned so far is what a Lexer driven alone over
\* the same source returns: the first token is the one #readToken reads at
\* offset 0, each later one the one it reads where the token before ended,
\* the cursor is at the end of the last, and an error or done is what next()
\* gives there.
AsAlone(lx) ==
    /\ \A k \in 1..Len(lx.tokens) :
          LET start == IF k = 1 THEN 0 ELSE lx.tokens[k - 1].loc.end
          IN  /\ start < Len(lx.source)
              /\ readToken(lx.source, start).error = ""
              /\ readToken(lx.source, start).index > start
              /\ readToken(lx.source, start).index <= Len(lx.source)
              /\ lx.tokens[k] =
                    Token(readToken(lx.source, start).type, lx.source, start,
                          readToken(lx.source, start).index)
    /\ lx.index = (IF lx.tokens = <<>> THEN 0 ELSE lx.tokens[Len(lx.tokens)].loc.end)
    /\ lx.done => (lx.index = Len(lx.source) /\ lx.error = "")
    /\ lx.error # "" =>
          /\ lx.index < Len(lx.source)
          /\ lx.error = readToken(lx.source, lx.index).error

\* C20: with the next() calls of two Lexer instances interleaved in any
\* order, each instance returns what it returns when driven alone, although
\* both write the lastIndex of the static regular expressions.
C20_LexersDoNotInterfere == AsAlone(lexer) /\ AsAlone(other)

C20_Witness ==
    /\ done
    /\ other.done
    /\ Len(tokens) >= 2
    /\ Len(other.tokens) >= 2
    /\ tokens # other.tokens
    /\ lastIndex.identRe > 0
    /\ lastIndex.operatorRe > lastIndex.identRe
    /\ lastIndex.operatorRe > index

\* The characters of the operator class
OperatorClass ==
    {"!", "#", "$", "%", "&", "*", "+", "-", ".", "/", ":", "<", "=", ">",
     "?", "@", "^", "|", "~"}

\* Every Operator token is followed by no Operator and no Comment token.
OperatorsStandApart ==
    \A k \in 1..(Len(tokens) - 1) :
        tokens[k].type = "Operator" =>
            tokens[k + 1].type \notin {"Operator", "Comment"}

\* Every Operator token takes the operator-class characters that follow it,
\* comment openers included.
OperatorsAreMaximal ==
    \A k \in 1..Len(tokens) :
        (tokens[k].type = "Operator" /\ tokens[k].loc.end < Len(source))
            => source[tokens[k].loc.end + 1] \notin OperatorClass

\* C21: an Operator token is the maximal run of operator-class characters
\* from its start, comment openers inside the run included, and no Operator
\* token is immediately followed by an Operator or a Comment token.
C21_OperatorIsMaximalRun ==
    /\ \A k \in 1..Len(tokens) :
          tokens[k].type = "Operator" =>
              \A j \in 1..Len(tokens[k].value) : tokens[k].value[j] \in OperatorClass
    /\ OperatorsAreMaximal
    /\ OperatorsStandApart

====
